---- MODULE Spec2Model ----
(***************************************************************************)
(* Provider fallback router of the Free AI Proxy (free-openai-to-railway).  *)
(*                                                                         *)
(* The repository holds five near-identical server files.  Each has a      *)
(* provider registry, a tryProviders fallback loop and the OpenAI-shaped    *)
(* endpoints.  The variable "variant" says which file is deployed:          *)
(*   jsFull    src/src/index.js      lines    1..352                        *)
(*   jsLite    src/src/index.js      lines  353..611                        *)
(*   tsSmart   src/unnamed/part_000  lines   88..729                        *)
(*   tsAbort   src/unnamed/part_000  lines  730..1332                       *)
(*   tsShuffle src/unnamed/part_001  lines    1..422                        *)
(*                                                                         *)
(* A slot is one HTTP request in flight.  An action is one turn of the      *)
(* event loop: the code between two awaits on the network or on a timer.    *)
(***************************************************************************)
EXTENDS Integers, Sequences, FiniteSets, TLC

VARIABLES variant, providers, pc, req, order, pos, phase, timer,
          attempts, errors, outcome, resp, abandoned, stale

vars == <<variant, providers, pc, req, order, pos, phase, timer,
          attempts, errors, outcome, resp, abandoned, stale>>

----------------------------------------------------------------------------
(* Bounds of the model                                                     *)

\* the registry is cut to its first NumProviders entries
NumProviders == 3
\* the same, for the specification with two requests in flight
ConcProviders == 2
\* at most this many providers have their enabled flag set to false
MaxDisabled == 1

Slots == {1, 2}

Variants == {"jsFull", "jsLite", "tsSmart", "tsAbort", "tsShuffle"}
PriorityVariants == {"jsFull", "jsLite", "tsSmart", "tsAbort"}

----------------------------------------------------------------------------
(* Text.  A string is a sequence of characters; a handler's value is a     *)
(* string or JavaScript's undefined.                                        *)

Str(s) == [t |-> "str", s |-> s]
Undefined == [t |-> "undef", s |-> <<>>]

Hi == <<"h", "i">>
Blank == <<" ">>
Empty == <<>>
NoResponse == <<"N", "o", " ", "r", "e", "s", "p", "o", "n", "s", "e">>
RawJson == <<"{", "}">>

IsSpace(c) == c \in {" ", "\n", "\t"}

RECURSIVE TrimStart(_)
TrimStart(s) ==
  IF s = <<>> THEN <<>>
  ELSE IF IsSpace(Head(s)) THEN TrimStart(Tail(s)) ELSE s

RECURSIVE TrimEnd(_)
TrimEnd(s) ==
  IF s = <<>> THEN <<>>
  ELSE IF IsSpace(s[Len(s)]) THEN TrimEnd(SubSeq(s, 1, Len(s) - 1)) ELSE s

\* String.prototype.trim
Trim(s) == TrimEnd(TrimStart(s))

\* JavaScript truthiness of a string-or-undefined value
Truthy(v) == v.t = "str" /\ v.s # <<>>

\* a || b
OrElse(v, d) == IF Truthy(v) THEN v ELSE d

----------------------------------------------------------------------------
(* Provider registry.  kind names the response normalisation of the handler:*)
(*   jsonOr      data.choices?.[0]?.message?.content || 'No response'       *)
(*   jsonStrict  data.choices[0].message.content                            *)
(*   text        await response.text()                                      *)
(*   textOr      text || 'No response from Phind'                           *)
(*   ddg         token request, chat request, concatenated stream           *)

Llama31 == "meta-llama/Meta-Llama-3.1-70B-Instruct"
Llama31s == "meta-llama/Meta-Llama-3.1-8B-Instruct"
Mixtral == "mistralai/Mixtral-8x7B-Instruct-v0.1"
Mistral7 == "mistralai/Mistral-7B-Instruct-v0.3"
Llama2 == "meta-llama/Llama-2-70b-chat-hf"

P(name, models, priority, kind) ==
  [name |-> name, models |-> models, enabled |-> TRUE,
   priority |-> priority, kind |-> kind]

RegistryJsFull ==
  << P("DeepInfra", <<Llama31, Mixtral>>, 1, "jsonOr"),
     P("Together", <<Mixtral, Llama2>>, 2, "jsonOr"),
     P("HuggingFace", <<Mixtral, Llama2>>, 3, "jsonOr"),
     P("Groq", <<"llama-3.1-70b-versatile", "mixtral-8x7b-32768", "gemma-7b-it">>,
       4, "jsonOr"),
     P("Phind", <<"Phind-70B", "gpt-4">>, 5, "text"),
     P("Blackbox", <<"blackbox", "gpt-4o">>, 6, "text"),
     P("Cohere", <<"command", "command-light">>, 7, "jsonOr") >>

RegistryJsLite ==
  << P("DeepInfra", <<Llama31, Mixtral>>, 1, "jsonOr"),
     P("Together", <<Mixtral, Llama2>>, 2, "jsonOr"),
     P("HuggingFace", <<Mixtral>>, 3, "jsonOr"),
     P("Groq", <<"llama-3.1-70b-versatile", "mixtral-8x7b-32768">>, 4, "jsonOr"),
     P("Phind", <<"Phind-70B">>, 5, "text"),
     P("Blackbox", <<"blackbox">>, 6, "text"),
     P("Cohere", <<"command">>, 7, "jsonOr") >>

RegistryTsSmart ==
  << P("DeepInfra", <<Llama31, Llama31s, Mixtral, Mistral7>>, 1, "jsonStrict"),
     P("HuggingFace", <<Mixtral, Llama2, "microsoft/phi-2">>, 2, "jsonOr"),
     P("Together", <<Mixtral, Llama2, "togethercomputer/RedPajama-INCITE-7B-Chat">>,
       3, "jsonOr"),
     P("Groq", <<"llama-3.1-70b-versatile", "llama-3.1-8b-instant",
                 "mixtral-8x7b-32768", "gemma-7b-it">>, 4, "jsonStrict"),
     P("Phind", <<"Phind-70B", "gpt-4", "gpt-3.5-turbo">>, 5, "text"),
     P("Blackbox", <<"blackbox", "gpt-4o", "claude-3.5-sonnet">>, 6, "text"),
     P("Airforce", <<"gpt-4", "gpt-3.5-turbo", "llama-3-70b", "claude-3-opus">>,
       7, "jsonStrict") >>

RegistryTsAbort ==
  << P("DeepInfra", <<Llama31, Llama31s, Mixtral, Mistral7>>, 1, "jsonOr"),
     P("Together", <<Mixtral, Llama2, "NousResearch/Nous-Hermes-2-Mixtral-8x7B-DPO">>,
       2, "jsonOr"),
     P("HuggingFace", <<Mixtral, Llama2, "microsoft/phi-2">>, 3, "jsonOr"),
     P("Groq", <<"llama-3.1-70b-versatile", "llama-3.1-8b-instant",
                 "mixtral-8x7b-32768", "gemma-7b-it">>, 4, "jsonOr"),
     P("Phind", <<"Phind-70B", "gpt-4", "gpt-3.5-turbo">>, 5, "text"),
     P("Blackbox", <<"blackbox", "gpt-4o", "claude-3.5-sonnet">>, 6, "text"),
     P("Cohere", <<"command", "command-light", "command-nightly">>, 7, "jsonOr") >>

\* the Provider interface of this file has no priority field
RegistryTsShuffle ==
  << P("Phind", <<"gpt-4", "gpt-3.5-turbo", "Phind-70B">>, 0, "textOr"),
     P("DeepInfra", <<Llama31, Mixtral>>, 0, "jsonStrict"),
     P("DuckDuckGo", <<"gpt-3.5-turbo", "claude-3-haiku">>, 0, "ddg"),
     P("Blackbox", <<"blackbox", "gpt-4o">>, 0, "text") >>

Registry(v) ==
  CASE v = "jsFull" -> RegistryJsFull
    [] v = "jsLite" -> RegistryJsLite
    [] v = "tsSmart" -> RegistryTsSmart
    [] v = "tsAbort" -> RegistryTsAbort
    [] v = "tsShuffle" -> RegistryTsShuffle

Min(a, b) == IF a < b THEN a ELSE b

\* the registries the model starts from: a prefix of the file's registry, with
\* the enabled flags as an operator of the deployment may have edited them
Registries(v, n) ==
  LET len == Min(n, Len(Registry(v)))
      base == SubSeq(Registry(v), 1, len)
  IN  { [i \in 1..len |-> [base[i] EXCEPT !.enabled = (i \notin off)]] :
          off \in { d \in SUBSET (1..len) : Cardinality(d) <= MaxDisabled } }

----------------------------------------------------------------------------
(* The router's pure parts                                                 *)

\* the filter left out: every provider of the registry
AllProviders(reg) == [i \in 1..Len(reg) |-> i]

\* providers.filter(p => p.enabled), as the indices it keeps, in registry order
EnabledProviders(reg) ==
  LET RECURSIVE Keep(_)
      Keep(i) == IF i > Len(reg) THEN <<>>
                 ELSE IF reg[i].enabled THEN <<i>> \o Keep(i + 1)
                 ELSE Keep(i + 1)
  IN  Keep(1)

\* the comparator with its operands swapped: b.priority - a.priority
ComparePriorityReversed(reg, a, b) == reg[b].priority - reg[a].priority

\* the comparator (a, b) => a.priority - b.priority
ComparePriority(reg, a, b) == reg[a].priority - reg[b].priority

\* Array.prototype.sort with that comparator: stable, ascending
SortByPriority(reg, idx) ==
  LET RECURSIVE Insert(_, _)
      Insert(sorted, x) ==
        IF sorted = <<>> THEN <<x>>
        ELSE IF ComparePriority(reg, sorted[Len(sorted)], x) > 0
             THEN Append(Insert(SubSeq(sorted, 1, Len(sorted) - 1), x),
                         sorted[Len(sorted)])
             ELSE Append(sorted, x)
      RECURSIVE Run(_, _)
      Run(done, k) == IF k > Len(idx) THEN done ELSE Run(Insert(done, idx[k]), k + 1)
  IN  Run(<<>>, 1)

\* the copy left as filter() returned it
NoShuffle(idx) == {idx}

\* the arrangements of a sequence of distinct elements
Shuffles(idx) ==
  { q \in [1..Len(idx) -> {idx[i] : i \in 1..Len(idx)}] :
      \A i, j \in 1..Len(idx) : i # j => q[i] # q[j] }

\* the orders in which one call may walk the providers: the sorted copy, or
\* what sort(() => Math.random() - 0.5) leaves of the copy
AttemptOrders(v, reg) ==
  IF v = "tsShuffle" THEN Shuffles(EnabledProviders(reg))
  ELSE {SortByPriority(reg, EnabledProviders(reg))}

\* sorting the registry itself: the registry becomes the array that is walked
RegistryInPlace(reg, ord) == [i \in 1..Len(ord) |-> reg[ord[i]]]

\* filter() and the spread build a new array: sorting it leaves the registry
RegistryAfterCall(reg, ord) == reg

\* the test negated: only an empty value leaves the loop
AcceptsEmptyOnly(v, val) == ~(Truthy(val) /\ Len(Trim(val.s)) > 0)

\* the test that lets a resolved value leave the loop
Accepts(v, val) ==
  CASE v \in {"jsFull", "jsLite", "tsAbort"} -> Truthy(val) /\ Len(Trim(val.s)) > 0
    [] v = "tsSmart" -> Truthy(val) /\ Len(val.s) > 0
    [] v = "tsShuffle" -> TRUE

\* does Promise.race with a setTimeout wrap the handler call
Races(v) == v # "tsAbort"

TimeoutMessage(v) ==
  IF v = "tsSmart" THEN <<"Timeout after 30s">> ELSE <<"Timeout">>

\* message of the AbortError that fetch rejects with once controller.abort() ran
AbortMessage == <<"This operation was aborted">>

\* the timer pending right after the handler was called
TimerAtInvoke(v) == IF Races(v) THEN "race" ELSE "abort"

\* the timer pending once fetch resolved: fetchWithTimeout clears its own
TimerAfterFetch(v) == IF Races(v) THEN "race" ELSE "none"

NoCount == -1

\* the Error thrown after the loop
AllFailed(v, errs) ==
  CASE v = "jsFull" -> [head |-> "Todos os providers falharam", count |-> Len(errs),
                        lines |-> errs]
    [] v \in {"tsSmart", "tsAbort"} ->
                       [head |-> "All providers failed", count |-> Len(errs),
                        lines |-> errs]
    [] v = "jsLite" -> [head |-> "All providers failed", count |-> NoCount,
                        lines |-> <<>>]
    [] v = "tsShuffle" -> [head |-> "All providers failed", count |-> NoCount,
                           lines |-> errs]

----------------------------------------------------------------------------
(* The handlers' pure parts                                                *)

Statuses == {200, 500}

\* response.ok
Ok(status) == status >= 200 /\ status <= 299

StatusText(status) == IF status = 200 THEN "200" ELSE "500"

\* what the upstream may send as a body: a completion text, or well-formed
\* JSON that carries no completion
Content(t) == [kind |-> "content", text |-> t]
Missing == [kind |-> "missing", text |-> RawJson]
Bodies == {Content(Hi), Content(Blank), Content(Empty), Missing}

\* the name the handlers of the shuffling file use in their own messages
Tag(name) == IF name = "DuckDuckGo" THEN "DDG" ELSE name

\* the rethrow of the shuffling file's handlers: `${tag} failed: ${error.message}`
Wrap(v, name, msg) ==
  IF v = "tsShuffle" THEN <<Tag(name), " failed: ">> \o msg ELSE msg

\* the Error thrown on !response.ok
HttpErrorMessage(v, name, status) ==
  Wrap(v, name,
    CASE v \in {"jsFull", "tsAbort"} -> <<"HTTP ", StatusText(status)>>
      [] v = "jsLite" -> <<name, ": ", StatusText(status)>>
      [] v = "tsSmart" -> <<name, " error: ", StatusText(status)>>
      [] v = "tsShuffle" -> <<Tag(name), " API error: ", StatusText(status)>>)

VqdMessage(v, name) == Wrap(v, name, <<"Failed to get VQD token">>)

TypeErrorMessage == <<"Cannot read properties of undefined (reading '0')">>

NoResponseFrom(name) == NoResponse \o <<" ", "f", "r", "o", "m", " ", name>>

Resolved(val) == [ok |-> TRUE, val |-> val, msg |-> <<>>]
Rejected(msg) == [ok |-> FALSE, val |-> Undefined, msg |-> msg]

\* what the handler settles with once the body is read
Normalize(v, p, body) ==
  CASE p.kind = "jsonOr" ->
         IF body.kind = "content"
         THEN Resolved(OrElse(Str(body.text), Str(NoResponse)))
         ELSE Resolved(Str(NoResponse))
    [] p.kind = "jsonStrict" ->
         IF body.kind = "content" THEN Resolved(Str(body.text))
         ELSE Rejected(Wrap(v, p.name, TypeErrorMessage))
    [] p.kind = "text" -> Resolved(Str(body.text))
    [] p.kind \in {"textOr", "ddg"} ->
         IF body.kind = "content"
         THEN Resolved(OrElse(Str(body.text), Str(NoResponseFrom(p.name))))
         ELSE IF p.kind = "ddg" THEN Resolved(Str(NoResponseFrom(p.name)))
         ELSE Resolved(Str(body.text))

\* the first await of a handler
FirstPhase(p) == IF p.kind = "ddg" THEN "vqd" ELSE "fetch"

\* where a handler reads a field of a message: while it builds the request of
\* its first fetch, of its second fetch, or nowhere (it passes the array on)
ReadsMessages(name) ==
  CASE name \in {"HuggingFace", "Phind", "Cohere"} -> "first"
    [] name = "DuckDuckGo" -> "second"
    [] OTHER -> "none"

\* message of the TypeError of m.role or m.content on a null element
NullErrorMessage(name) ==
  IF name \in {"HuggingFace", "DuckDuckGo"}
  THEN <<"Cannot read properties of null (reading 'role')">>
  ELSE <<"Cannot read properties of null (reading 'content')">>

\* the handler throws while it builds the request of its first fetch
ThrowsAtCall(p, messages) ==
  messages = "nullMessage" /\ ReadsMessages(p.name) = "first"

\* the handler throws while it builds the request of its second fetch
ThrowsAtSecond(p, messages) ==
  messages = "nullMessage" /\ ReadsMessages(p.name) = "second"

----------------------------------------------------------------------------
(* The endpoints' pure parts                                               *)

\* String.prototype.toLowerCase on the provider names of the registries
ToLowerCase(name) ==
  CASE name = "DeepInfra" -> "deepinfra"
    [] name = "Together" -> "together"
    [] name = "HuggingFace" -> "huggingface"
    [] name = "Groq" -> "groq"
    [] name = "Phind" -> "phind"
    [] name = "Blackbox" -> "blackbox"
    [] name = "Cohere" -> "cohere"
    [] name = "Airforce" -> "airforce"
    [] name = "DuckDuckGo" -> "duckduckgo"

\* filter(p => p.enabled).flatMap(p => p.models.map(m => ({id: m, owned_by: ...})))
ModelEntries(reg) ==
  LET Of(i) == [k \in 1..Len(reg[i].models) |->
                  [id |-> reg[i].models[k], owned_by |-> ToLowerCase(reg[i].name)]]
      RECURSIVE Flat(_)
      Flat(i) == IF i > Len(reg) THEN <<>>
                 ELSE IF reg[i].enabled THEN Of(i) \o Flat(i + 1)
                 ELSE Flat(i + 1)
  IN  Flat(1)

\* Array.from(new Map(entries.map(m => [m.id, m])).values()): a key keeps the
\* place of its first insertion and the value of its last
UniqueById(entries) ==
  LET Last(id) == CHOOSE k \in 1..Len(entries) :
                    /\ entries[k].id = id
                    /\ \A j \in (k + 1)..Len(entries) : entries[j].id # id
      RECURSIVE Walk(_)
      Walk(k) ==
        IF k > Len(entries) THEN <<>>
        ELSE IF \E j \in 1..(k - 1) : entries[j].id = entries[k].id
             THEN Walk(k + 1)
             ELSE <<entries[Last(entries[k].id)]>> \o Walk(k + 1)
  IN  Walk(1)

\* the data of GET /v1/models
ListModels(v, reg) ==
  IF v = "tsShuffle" THEN ModelEntries(reg) ELSE UniqueById(ModelEntries(reg))

Includes(seq, x) == \E k \in 1..Len(seq) : seq[k] = x

\* the last provider that matches, as a Map keyed by model id would keep it
FindProviderLast(reg, model) ==
  LET hits == { i \in 1..Len(reg) : reg[i].enabled /\ Includes(reg[i].models, model) }
  IN  IF hits = {} THEN 0 ELSE CHOOSE i \in hits : \A j \in hits : i >= j

\* providers.find(p => p.enabled && p.models.includes(model)); 0 for undefined
FindProvider(reg, model) ==
  LET hits == { i \in 1..Len(reg) : reg[i].enabled /\ Includes(reg[i].models, model) }
  IN  IF hits = {} THEN 0 ELSE CHOOSE i \in hits : \A j \in hits : i <= j

\* the files that register GET /v1/models/:model
HasModelRoute(v) == v \in {"jsFull", "tsSmart", "tsAbort"}

\* what a client may send as messages: nothing, something that is no array, an
\* empty array, or an array with one message that has no role, has no content
\* (missing, or the empty string), is null, or is well formed
MessagesInputs ==
  {"missing", "notArray", "empty", "noRole", "noContent", "nullMessage", "ok"}
PromptInputs == {"missing", "empty", "ok"}

\* !(!messages || !Array.isArray(messages) || messages.length === 0)
ValidMessages(v, messages) == messages \notin {"missing", "notArray", "empty"}

\* for (const msg of messages) if (!msg.role || !msg.content) return 400: the
\* loop passes, rejects, or throws on msg.role of null; only one file has it
MessageFormat(v, messages) ==
  IF v # "tsSmart" THEN "pass"
  ELSE CASE messages = "nullMessage" -> "throw"
         [] messages \in {"noRole", "noContent"} -> "reject"
         [] OTHER -> "pass"

\* the test of the prompt left out
ValidPromptAlways(prompt) == TRUE

\* !prompt
ValidPrompt(prompt) == prompt = "ok"

\* the messages tryProviders is called with: the route of /v1/completions
\* builds [{ role: 'user', content: prompt }]
MessagesOf(rq) == IF rq.endpoint = "completions" THEN "ok" ELSE rq.arg
UnknownModel == "no-such-model"

\* req.body.model: left out, a model that some providers list and the first of
\* each registry does not, or a model no provider lists
NoModel == "undefined"
ModelInputs == {NoModel, Llama2, UnknownModel}

ModelIds(reg) ==
  { reg[i].models[k] : <<i, k>> \in
      { ik \in (1..Len(reg)) \X (1..4) : ik[2] <= Len(reg[ik[1]].models) } }

NoError == [head |-> "", count |-> NoCount, lines |-> <<>>]
Plain(text) == [head |-> text, count |-> NoCount, lines |-> <<>>]

NoRequest == [endpoint |-> "none", stream |-> FALSE, arg |-> "", model |-> NoModel]
NoOutcome == [kind |-> "none", val |-> Undefined, err |-> NoError]
Returned(val) == [kind |-> "returned", val |-> val, err |-> NoError]
Thrown(err) == [kind |-> "thrown", val |-> Undefined, err |-> err]

\* the calls a route makes on res
NoChunk == [role |-> "", delta |-> Undefined, finish |-> "", done |-> FALSE]
SetHeader == [op |-> "setHeader", chunk |-> NoChunk]
Write(chunk) == [op |-> "write", chunk |-> chunk]
End == [op |-> "end", chunk |-> NoChunk]
JsonCall == [op |-> "json", chunk |-> NoChunk]

\* delta: { role: 'assistant', content } in three files, { content } in two
DeltaRole(v) == IF v \in {"jsFull", "tsSmart", "tsAbort"} THEN "assistant" ELSE ""

\* the first chunk closes the stream itself
FirstChunkStops(v, content) ==
  [role |-> DeltaRole(v), delta |-> content, finish |-> "stop", done |-> FALSE]

\* choices: [{ index: 0, delta: { ..., content }, finish_reason: null }]
FirstChunk(v, content) ==
  [role |-> DeltaRole(v), delta |-> content, finish |-> "null", done |-> FALSE]

\* choices: [{ index: 0, delta: {}, finish_reason: 'stop' }]
LastChunk == [role |-> "", delta |-> Undefined, finish |-> "stop", done |-> FALSE]

\* 'data: [DONE]\n\n'
DoneChunk == [role |-> "", delta |-> Undefined, finish |-> "", done |-> TRUE]

NoResponseYet ==
  [status |-> 0, shape |-> "none", content |-> Undefined, message |-> NoError,
   data |-> <<>>, writes |-> <<>>]

\* res.status(status).json(...), or res.json(...) with status 200
Json(status, shape, content, message, data) ==
  [status |-> status, shape |-> shape, content |-> content, message |-> message,
   data |-> data, writes |-> <<JsonCall>>]

\* the event-stream headers set before tryProviders is awaited
ChatWritesEarlyHeader(v, stream, outc) ==
  IF ~stream THEN <<JsonCall>>
  ELSE IF outc.kind = "thrown" THEN <<SetHeader, JsonCall>>
  ELSE << SetHeader, Write(FirstChunk(v, outc.val)), Write(LastChunk),
          Write(DoneChunk), End >>

\* the else of if (stream) left out: res.json runs after res.end
ChatWritesNoElse(v, stream, outc) ==
  IF outc.kind = "thrown" THEN <<JsonCall>>
  ELSE IF stream
       THEN << SetHeader, Write(FirstChunk(v, outc.val)), Write(LastChunk),
               Write(DoneChunk), End, JsonCall >>
       ELSE <<JsonCall>>

\* what the route of /v1/chat/completions calls on res once tryProviders
\* returned or threw: the catch block, the stream branch or the JSON branch
ChatWrites(v, stream, outc) ==
  IF outc.kind = "thrown" THEN <<JsonCall>>
  ELSE IF stream
       THEN << SetHeader, Write(FirstChunk(v, outc.val)), Write(LastChunk),
               Write(DoneChunk), End >>
       ELSE <<JsonCall>>

\* the response of the two POST routes to what tryProviders did
Response(v, rq, outc) ==
  IF rq.endpoint = "chat"
  THEN [status |-> IF outc.kind = "returned" THEN 200 ELSE 500,
        shape |-> IF outc.kind = "thrown" THEN "error"
                  ELSE IF rq.stream THEN "chat.completion.chunk"
                  ELSE "chat.completion",
        content |-> outc.val,
        message |-> outc.err,
        data |-> <<>>,
        writes |-> ChatWrites(v, rq.stream, outc)]
  ELSE IF outc.kind = "returned"
       THEN Json(200, "text_completion", outc.val, NoError, <<>>)
       ELSE Json(500, "error", Undefined, outc.err, <<>>)

----------------------------------------------------------------------------
(* State                                                                   *)
(*   variant    the file that is deployed                                   *)
(*   providers  the registry array of that file                             *)
(*   pc         per slot: closed (takes no request), idle, await (inside    *)
(*              tryProviders, at the await of an attempt), done (answered)  *)
(*   req        the request of the slot                                     *)
(*   order      the array the for-loop of tryProviders walks                *)
(*   pos        the loop's position in it                                   *)
(*   phase      the await the current handler stands at: vqd, fetch, body   *)
(*   timer      the pending timer that bounds the current attempt           *)
(*   attempts   the log of the call: one line per "Trying ..." with the     *)
(*              model the handler was handed, how the attempt ended         *)
(*              (success, empty, error, timeout), the value the handler     *)
(*              resolved with and the number of fetch calls the handler has *)
(*              made                                                        *)
(*   errors     the errors array of the call                                *)
(*   outcome    how tryProviders ended                                      *)
(*   resp       the response sent: its status and payload, and the calls    *)
(*              made on res, in order                                       *)
(*   abandoned  the providers whose handler lost the race against the timer *)
(*              and still runs: nothing cancels its upstream call           *)
(*   stale      the number of setTimeout timers of the call that are still  *)
(*              pending although the race they were created for is over     *)

Set(f, s, x) == [f EXCEPT ![s] = x]

\* the line of the attempt that just ended: how it ended and what it resolved with
MarkLast(atts, out, val) ==
  [atts EXCEPT ![Len(atts)] = [prov |-> @.prov, model |-> @.model, out |-> out,
                               val |-> val, fetches |-> @.fetches]]

\* one more fetch call by the handler of the current attempt
CountFetch(atts) ==
  [atts EXCEPT ![Len(atts)] = [prov |-> @.prov, model |-> @.model, out |-> @.out,
                               val |-> @.val, fetches |-> @.fetches + 1]]

\* a loop that tries the same provider again
NextIndexSame(k) == k

\* for (const provider of ...): the position after position k
NextIndex(k) == k + 1

\* the catch block: errors.push(`${provider.name}: ${error.message}`)
CatchErrors(v, errs, name, msg) ==
  IF v = "jsLite" THEN errs ELSE Append(errs, <<name, ": ">> \o msg)

\* the handler handed a model of its own list when it does not list the one
\* requested
HandedOwnModel(rq, p) ==
  IF Includes(p.models, rq.model) THEN rq.model ELSE p.models[1]

\* the second argument of provider.handler(messages, model)
HandedModel(rq, p) == rq.model

\* the turns of the for-loop from position k on that end without an await on
\* the network: a handler that throws before its first fetch rejects at once,
\* the catch block runs and the loop goes on.  The result is the position of
\* the first handler that reaches its fetch (or the end of the array), with
\* the log and the errors array as the turns before it leave them
RECURSIVE CallUntilFetch(_, _, _, _, _, _, _)
CallUntilFetch(v, reg, rq, ord, k, atts, errs) ==
  IF k > Len(ord) THEN [k |-> k, atts |-> atts, errs |-> errs]
  ELSE IF ThrowsAtCall(reg[ord[k]], MessagesOf(rq))
       THEN CallUntilFetch(v, reg, rq, ord, k + 1,
              Append(atts, [prov |-> ord[k], model |-> HandedModel(rq, reg[ord[k]]),
                            out |-> "error", val |-> Undefined, fetches |-> 0]),
              CatchErrors(v, errs, reg[ord[k]].name,
                          Wrap(v, reg[ord[k]].name, NullErrorMessage(reg[ord[k]].name))))
       ELSE [k |-> k,
             atts |-> Append(atts, [prov |-> ord[k],
                                    model |-> HandedModel(rq, reg[ord[k]]),
                                    out |-> "pending", val |-> Undefined,
                                    fetches |-> 1]),
             errs |-> errs]

\* the attempts of the log `after` that their handler ended, and that were not
\* ended in the log `before`
EndedByHandler(before, after) ==
  { j \in 1..Len(after) :
      /\ after[j].out \in {"success", "empty", "error"}
      /\ j <= Len(before) => before[j].out = "pending" }

\* every timer cleared when its race is over
TimersCleared(v, before, after) == 0

\* the timers a turn of the event loop leaves pending behind it: nothing calls
\* clearTimeout on the timer of a race, so each attempt that its handler ended
\* leaves one; fetchWithTimeout clears its timer on both of its paths
TimersLeft(v, before, after) ==
  IF Races(v) THEN Cardinality(EndedByHandler(before, after)) ELSE 0

\* the route is left: the response is sent
Finish(s, ord, atts, errs, outc, response) ==
  /\ pc' = Set(pc, s, "done")
  /\ order' = Set(order, s, ord)
  /\ phase' = Set(phase, s, "none")
  /\ timer' = Set(timer, s, "none")
  /\ attempts' = Set(attempts, s, atts)
  /\ errors' = Set(errors, s, errs)
  /\ outcome' = Set(outcome, s, outc)
  /\ resp' = Set(resp, s, response)
  /\ stale' = Set(stale, s, stale[s] + TimersLeft(variant, attempts[s], atts))
  /\ UNCHANGED pos

\* the for-loop from position k on, up to its next await on the network: the
\* handler of some provider is called and stands at its first fetch, or the
\* loop is left and the Error is thrown into the catch block of the route
Loop(s, rq, ord, k, atts, errs) ==
  LET w == CallUntilFetch(variant, providers, rq, ord, k, atts, errs)
  IN  IF w.k <= Len(ord)
      THEN /\ pc' = Set(pc, s, "await")
           /\ order' = Set(order, s, ord)
           /\ pos' = Set(pos, s, w.k)
           /\ phase' = Set(phase, s, FirstPhase(providers[ord[w.k]]))
           /\ timer' = Set(timer, s, TimerAtInvoke(variant))
           /\ attempts' = Set(attempts, s, w.atts)
           /\ errors' = Set(errors, s, w.errs)
           /\ stale' = Set(stale, s, stale[s] + TimersLeft(variant, attempts[s], w.atts))
           /\ UNCHANGED <<outcome, resp>>
      ELSE Finish(s, ord, w.atts, w.errs, Thrown(AllFailed(variant, w.errs)),
                  Response(variant, rq, Thrown(AllFailed(variant, w.errs))))

\* the awaited promise resolved with val
Resolve(s, val) ==
  IF Accepts(variant, val)
  THEN Finish(s, order[s], MarkLast(attempts[s], "success", val), errors[s],
              Returned(val), Response(variant, req[s], Returned(val)))
  ELSE Loop(s, req[s], order[s], NextIndex(pos[s]),
            MarkLast(attempts[s], "empty", val), errors[s])

\* the awaited promise rejected: the catch block, then the next turn of the loop
Reject(s, msg, out) ==
  Loop(s, req[s], order[s], NextIndex(pos[s]), MarkLast(attempts[s], out, Undefined),
       CatchErrors(variant, errors[s], providers[order[s][pos[s]]].name, msg))

Current(s) == providers[order[s][pos[s]]]

\* an array with the elements that pass a test moved to its front
Front(ord, Test(_)) ==
  SelectSeq(ord, Test) \o SelectSeq(ord, LAMBDA i : ~Test(i))

\* a router that tries the providers that list the requested model first
TryProvidersByModel(s, rq) ==
  \E ord \in AttemptOrders(variant, providers) :
    /\ providers' = RegistryAfterCall(providers, ord)
    /\ Loop(s, rq, Front(ord, LAMBDA i : Includes(providers[i].models, rq.model)),
            1, <<>>, <<>>)

\* tryProviders(messages, model) is entered
TryProviders(s, rq) ==
  \E ord \in AttemptOrders(variant, providers) :
    /\ providers' = RegistryAfterCall(providers, ord)
    /\ Loop(s, rq, ord, 1, <<>>, <<>>)

\* a route answers without calling tryProviders
Answer(s, response) ==
  /\ Finish(s, <<>>, <<>>, <<>>, NoOutcome, response)
  /\ UNCHANGED providers

----------------------------------------------------------------------------
(* Actions                                                                 *)

ChatRequest(messages, stream, model) ==
  [endpoint |-> "chat", stream |-> stream, arg |-> messages, model |-> model]

\* the route of POST /v1/chat/completions up to its first await or its response
Chat(s, messages, stream, model) ==
  /\ pc[s] = "idle"
  /\ req' = Set(req, s, ChatRequest(messages, stream, model))
  /\ IF ~ValidMessages(variant, messages)
     THEN Answer(s, Json(400, "error", Undefined, Plain("messages array required"), <<>>))
     ELSE CASE MessageFormat(variant, messages) = "reject" ->
                 Answer(s, Json(400, "error", Undefined,
                                Plain("Invalid message format"), <<>>))
            [] MessageFormat(variant, messages) = "throw" ->
                 Answer(s, Json(500, "error", Undefined,
                                Plain("Cannot read properties of null (reading 'role')"),
                                <<>>))
            [] OTHER -> TryProviders(s, ChatRequest(messages, stream, model))
  /\ UNCHANGED <<variant, abandoned>>

\* POST /v1/chat/completions arrives, with any messages and no model
PostChat(s) ==
  \E messages \in MessagesInputs, stream \in BOOLEAN : Chat(s, messages, stream, NoModel)

CompletionsRequest(prompt, model) ==
  [endpoint |-> "completions", stream |-> FALSE, arg |-> prompt, model |-> model]

\* the route of POST /v1/completions up to its first await or its response
Completions(s, prompt, model) ==
  /\ pc[s] = "idle"
  /\ variant # "tsShuffle"
  /\ req' = Set(req, s, CompletionsRequest(prompt, model))
  /\ IF ValidPrompt(prompt)
     THEN TryProviders(s, CompletionsRequest(prompt, model))
     ELSE Answer(s, Json(400, "error", Undefined, Plain("prompt required"), <<>>))
  /\ UNCHANGED <<variant, abandoned>>

\* POST /v1/completions arrives, with any prompt and no model
PostCompletions(s) == \E prompt \in PromptInputs : Completions(s, prompt, NoModel)

\* GET /v1/models arrives
GetModels(s) ==
  /\ pc[s] = "idle"
  /\ req' = Set(req, s, [endpoint |-> "models", stream |-> FALSE, arg |-> "", model |-> NoModel])
  /\ Answer(s, Json(200, "list", Undefined, NoError, ListModels(variant, providers)))
  /\ UNCHANGED <<variant, abandoned>>

\* GET /v1/models/:model arrives
GetModel(s) ==
  /\ pc[s] = "idle"
  /\ \E model \in ModelIds(providers) \cup {UnknownModel} :
       /\ req' = Set(req, s, [endpoint |-> "model", stream |-> FALSE, arg |-> model,
                               model |-> NoModel])
       /\ IF HasModelRoute(variant) /\ FindProvider(providers, model) # 0
          THEN Answer(s, Json(200, "model", Undefined, NoError,
                              << [id |-> model,
                                  owned_by |-> ToLowerCase(
                                    providers[FindProvider(providers, model)].name)] >>))
          ELSE Answer(s, Json(404, "error", Undefined, Plain("not found"), <<>>))
  /\ UNCHANGED <<variant, abandoned>>

\* the upstream answers a fetch of the handler.  The DuckDuckGo handler fetches
\* twice: the answer to its first fetch carries the x-vqd-4 token or not, and
\* its status is not looked at; with the token it builds and sends the chat
\* request.  Every other fetch is judged by response.ok
FetchResponds(s) ==
  /\ pc[s] = "await" /\ phase[s] \in {"vqd", "fetch"}
  /\ \/ /\ phase[s] = "vqd"
        /\ \E token \in BOOLEAN :
             IF ~token
             THEN Reject(s, VqdMessage(variant, Current(s).name), "error")
             ELSE IF ThrowsAtSecond(Current(s), MessagesOf(req[s]))
             THEN Reject(s, Wrap(variant, Current(s).name,
                                 NullErrorMessage(Current(s).name)), "error")
             ELSE /\ phase' = Set(phase, s, "fetch")
                  /\ attempts' = Set(attempts, s, CountFetch(attempts[s]))
                  /\ UNCHANGED <<pc, order, pos, timer, errors, outcome, resp, stale>>
     \/ /\ phase[s] = "fetch"
        /\ \E status \in Statuses :
             IF Ok(status)
             THEN /\ phase' = Set(phase, s, "body")
                  /\ timer' = Set(timer, s, TimerAfterFetch(variant))
                  /\ UNCHANGED <<pc, order, pos, attempts, errors, outcome, resp, stale>>
             ELSE Reject(s, HttpErrorMessage(variant, Current(s).name, status), "error")
  /\ UNCHANGED <<variant, providers, req, abandoned>>

\* the body of the upstream's answer is read and parsed
BodyArrives(s) ==
  /\ pc[s] = "await" /\ phase[s] = "body"
  /\ \E body \in Bodies :
       LET r == Normalize(variant, Current(s), body)
       IN  IF r.ok THEN Resolve(s, r.val) ELSE Reject(s, r.msg, "error")
  /\ UNCHANGED <<variant, providers, req, abandoned>>

\* the handler that lost the race is left running
StillRuns(gone, i) == gone \cup {i}

\* the setTimeout raced against the handler fires first: the race rejects, the
\* handler and its upstream call go on
TimeoutFires(s) ==
  /\ pc[s] = "await" /\ timer[s] = "race"
  /\ Reject(s, TimeoutMessage(variant), "timeout")
  /\ abandoned' = Set(abandoned, s, StillRuns(abandoned[s], order[s][pos[s]]))
  /\ UNCHANGED <<variant, providers, req>>

\* the setTimeout of fetchWithTimeout fires: the fetch is aborted and the
\* handler rejects with it
AbortFires(s) ==
  /\ pc[s] = "await" /\ timer[s] = "abort"
  /\ Reject(s, AbortMessage, "timeout")
  /\ UNCHANGED <<variant, providers, req, abandoned>>

\* the late rejection caught as if the attempt were still awaited
LateSettlesCaught(s) ==
  /\ \E i \in abandoned[s] :
       /\ abandoned' = Set(abandoned, s, abandoned[s] \ {i})
       /\ errors' = Set(errors, s, Append(errors[s],
                       <<providers[i].name, ": ">> \o HttpErrorMessage(variant,
                                                        providers[i].name, 500)))
  /\ UNCHANGED <<variant, providers, pc, req, order, pos, phase, timer,
                 attempts, outcome, resp, stale>>

\* the upstream call of an abandoned handler ends and the handler settles,
\* with a value or with an error.  Promise.race has rejected already: the
\* settlement reaches a promise that is settled, and no continuation of
\* tryProviders runs
LateSettles(s) ==
  /\ \E i \in abandoned[s] : abandoned' = Set(abandoned, s, abandoned[s] \ {i})
  /\ UNCHANGED <<variant, providers, pc, req, order, pos, phase, timer,
                 attempts, errors, outcome, resp, stale>>

\* a timer whose race is over fires: its reject reaches a settled promise
StaleTimerFires(s) ==
  /\ stale[s] > 0
  /\ stale' = Set(stale, s, stale[s] - 1)
  /\ UNCHANGED <<variant, providers, pc, req, order, pos, phase, timer,
                 attempts, errors, outcome, resp, abandoned>>

----------------------------------------------------------------------------
(* Specifications                                                          *)

InitSlots(open) ==
  /\ pc = [s \in Slots |-> IF s \in open THEN "idle" ELSE "closed"]
  /\ req = [s \in Slots |-> NoRequest]
  /\ order = [s \in Slots |-> <<>>]
  /\ pos = [s \in Slots |-> 0]
  /\ phase = [s \in Slots |-> "none"]
  /\ timer = [s \in Slots |-> "none"]
  /\ attempts = [s \in Slots |-> <<>>]
  /\ errors = [s \in Slots |-> <<>>]
  /\ outcome = [s \in Slots |-> NoOutcome]
  /\ resp = [s \in Slots |-> NoResponseYet]
  /\ abandoned = [s \in Slots |-> {}]
  /\ stale = [s \in Slots |-> 0]

\* one request
Init ==
  /\ variant \in Variants
  /\ providers \in Registries(variant, NumProviders)
  /\ InitSlots({1})

\* two requests in flight
InitConc ==
  /\ variant \in Variants
  /\ providers \in Registries(variant, ConcProviders)
  /\ InitSlots(Slots)

Next ==
  \E s \in Slots :
    \/ PostChat(s)
    \/ PostCompletions(s)
    \/ GetModels(s)
    \/ GetModel(s)
    \/ FetchResponds(s)
    \/ BodyArrives(s)
    \/ TimeoutFires(s)
    \/ AbortFires(s)
    \/ LateSettles(s)
    \/ StaleTimerFires(s)

\* two requests in flight: each is a well-formed request that is not streamed,
\* and the abandoned handlers are left where the timer left them
NextConc ==
  \E s \in Slots :
    \/ Chat(s, "ok", FALSE, NoModel)
    \/ PostCompletions(s)
    \/ GetModels(s)
    \/ GetModel(s)
    \/ FetchResponds(s)
    \/ BodyArrives(s)
    \/ TimeoutFires(s)
    \/ AbortFires(s)

\* the place of a model among the inputs
Rank(model) ==
  CASE model = NoModel -> 0
    [] model = Llama2 -> 1
    [] model = UnknownModel -> 2

\* the request of slot s arrives when the requests of the slots before it are
\* answered, and names a model of greater rank than theirs
OtherModel(s, model) ==
  \A t \in Slots :
    /\ t < s => (pc[t] = "done" /\ Rank(req[t].model) < Rank(model))
    /\ t > s => pc[t] = "idle"

\* two chat requests, one after the other, that differ in the model and in
\* nothing else
NextRoute ==
  \E s \in Slots :
    \/ \E model \in ModelInputs : OtherModel(s, model) /\ Chat(s, "ok", FALSE, model)
    \/ FetchResponds(s)
    \/ BodyArrives(s)
    \/ TimeoutFires(s)
    \/ AbortFires(s)

Spec == Init /\ [][Next]_vars

SpecRoute == InitConc /\ [][NextRoute]_vars

SpecConc == InitConc /\ [][NextConc]_vars

\* the timers of the runtime fire
Fairness == \A s \in Slots : WF_vars(TimeoutFires(s)) /\ WF_vars(AbortFires(s))

FairSpec == Init /\ [][Next]_vars /\ Fairness

----------------------------------------------------------------------------
(* Properties                                                              *)

\* tryProviders was called for the request of the slot
Called(s) == pc[s] = "await" \/ outcome[s].kind # "none"

Failed(out) == out \in {"error", "timeout", "empty"}

\* a value that is a string with something other than white space in it
NonBlank(val) == val.t = "str" /\ Trim(val.s) # <<>>

Priority(i) == providers[i].priority

\* C1: in the files that sort by priority, the providers are attempted in
\* strictly ascending priority, and a handler is called only after every enabled
\* provider of smaller priority was attempted in the same call and failed, timed
\* out or came back empty
C1_PriorityOrder ==
  variant \in PriorityVariants =>
    \A s \in Slots : \A j \in 1..Len(attempts[s]) :
      /\ \A k \in 1..(j - 1) :
           Priority(attempts[s][k].prov) < Priority(attempts[s][j].prov)
      /\ \A i \in 1..Len(providers) :
           (providers[i].enabled /\ Priority(i) < Priority(attempts[s][j].prov))
             => \E k \in 1..(j - 1) :
                  attempts[s][k].prov = i /\ Failed(attempts[s][k].out)

\* C1 witness: the third provider by priority is being attempted after one
\* provider timed out and another failed otherwise
C1_Witness ==
  /\ variant \in PriorityVariants
  /\ \E s \in Slots :
       /\ Len(attempts[s]) = 3
       /\ \E j, k \in 1..2 : /\ attempts[s][j].out = "timeout"
                             /\ attempts[s][k].out \in {"error", "empty"}

\* C2: once an attempt yields a non-empty result the call has returned exactly
\* that text, and that attempt is the last one of the call
C2_StopAtFirstSuccess ==
  \A s \in Slots : \A j \in 1..Len(attempts[s]) :
    NonBlank(attempts[s][j].val) =>
      /\ j = Len(attempts[s])
      /\ pc[s] = "done"
      /\ outcome[s] = Returned(attempts[s][j].val)

\* C2 witness: a call returned at its second attempt and left a later provider
\* of its order untried
C2_Witness ==
  \E s \in Slots :
    /\ outcome[s].kind = "returned"
    /\ Len(attempts[s]) = 2
    /\ Len(order[s]) = 3
    /\ NonBlank(attempts[s][2].val)

\* C3: a call returns if and only if some attempt of it yielded a non-empty
\* text, and then it returns the text of the first such attempt; otherwise it
\* throws.  A text of white space only is counted on neither side: a call that
\* returned has an attempt that yielded a string of positive length, a call
\* that threw has no attempt that yielded more than white space.
C3_SucceedsIffSomeNonEmpty ==
  \A s \in Slots :
    LET some == { j \in 1..Len(attempts[s]) : Truthy(attempts[s][j].val) }
        hits == { j \in 1..Len(attempts[s]) : NonBlank(attempts[s][j].val) }
    IN  /\ outcome[s].kind = "returned" =>
              /\ some # {}
              /\ outcome[s].val = attempts[s][Len(attempts[s])].val
              /\ \A j \in hits : j = Len(attempts[s])
        /\ outcome[s].kind = "thrown" => hits = {}

\* C4: a call that returns, returns a text that is not the empty string
C4_ReturnedTextNonEmpty ==
  \A s \in Slots :
    outcome[s].kind = "returned" => (outcome[s].val.t = "str" /\ outcome[s].val.s # <<>>)

\* C5: the error thrown on total failure has one "<name>: <message>" line per
\* attempt of the call, in attempt order, and the count it reports is the
\* number of attempts
C5_AllFailuresAggregated ==
  \A s \in Slots :
    outcome[s].kind = "thrown" =>
      LET e == outcome[s].err
      IN  /\ Len(e.lines) = Len(attempts[s])
          /\ \A j \in 1..Len(e.lines) :
               /\ Len(e.lines[j]) >= 3
               /\ e.lines[j][1] = providers[attempts[s][j].prov].name
               /\ e.lines[j][2] = ": "
          /\ e.count # NoCount => e.count = Len(attempts[s])

\* C6: while an attempt is awaited, whether for the response or for its body, a
\* timer that ends the attempt is pending
C6_AttemptBoundedByTimer ==
  \A s \in Slots : pc[s] = "await" => timer[s] \in {"race", "abort"}

\* C7: a call that awaits a handler ends, whatever the handlers do
C7_EveryCallEnds ==
  \A s \in Slots : (pc[s] = "await") ~> (pc[s] = "done")

\* the enabled providers, as a set of registry indices
EnabledSet == { i \in 1..Len(providers) : providers[i].enabled }

\* C8: within one call no provider is attempted twice, and a call that threw
\* has attempted every enabled provider exactly once
C8_NoRetries ==
  \A s \in Slots :
    /\ \A j, k \in 1..Len(attempts[s]) :
         j # k => attempts[s][j].prov # attempts[s][k].prov
    /\ outcome[s].kind = "thrown" =>
         /\ { attempts[s][j].prov : j \in 1..Len(attempts[s]) } = EnabledSet
         /\ Len(attempts[s]) = Cardinality(EnabledSet)

\* C8 witness: a call threw after it went through three providers
C8_Witness ==
  \E s \in Slots : outcome[s].kind = "thrown" /\ Len(attempts[s]) = 3

DisabledSet == (1..Len(providers)) \ EnabledSet

ListedBy(i, model) == Includes(providers[i].models, model)

NeverAttempted(i) ==
  \A s \in Slots : \A j \in 1..Len(attempts[s]) : attempts[s][j].prov # i

Answered(s, endpoint) == pc[s] = "done" /\ req[s].endpoint = endpoint

OnlyDisabledList(model) ==
  /\ \E i \in DisabledSet : ListedBy(i, model)
  /\ \A i \in EnabledSet : ~ListedBy(i, model)

\* C9 as stated: a disabled provider is never attempted, none of its models
\* appears in the list of GET /v1/models, and GET /v1/models/:model answers 404
\* for a model that only disabled providers list
C9_DisabledModelsAbsent ==
  /\ \A i \in DisabledSet : NeverAttempted(i)
  /\ \A s \in Slots : Answered(s, "models") =>
       \A k \in 1..Len(resp[s].data) : \A i \in DisabledSet :
         ~ListedBy(i, resp[s].data[k].id)
  /\ \A s \in Slots :
       (Answered(s, "model") /\ OnlyDisabledList(req[s].arg)) => resp[s].status = 404

\* C9 as amended: a disabled provider is never attempted, no entry of GET
\* /v1/models is owned by it and every listed model is listed by an enabled
\* provider, and GET /v1/models/:model answers 404 for a model that only
\* disabled providers list
C9_DisabledNeverServed ==
  /\ \A i \in DisabledSet : NeverAttempted(i)
  /\ \A s \in Slots : Answered(s, "models") =>
       \A k \in 1..Len(resp[s].data) :
         /\ \A i \in DisabledSet :
              resp[s].data[k].owned_by # ToLowerCase(providers[i].name)
         /\ \E i \in EnabledSet : ListedBy(i, resp[s].data[k].id)
  /\ \A s \in Slots :
       (Answered(s, "model") /\ OnlyDisabledList(req[s].arg)) => resp[s].status = 404

\* C9 witness: with a provider disabled, one call went through every enabled
\* provider and threw, and GET /v1/models answered with a list that lacks a
\* model of the disabled provider
C9_Witness ==
  \E i \in DisabledSet : \E s, t \in Slots :
    /\ outcome[s].kind = "thrown" /\ Len(attempts[s]) >= 1
    /\ Answered(t, "models") /\ Len(resp[t].data) >= 1
    /\ \E m \in ModelIds(providers) :
         /\ ListedBy(i, m)
         /\ \A k \in 1..Len(resp[t].data) : resp[t].data[k].id # m

\* C10: no step of any request changes the registry, and every call, whatever
\* happened to earlier or concurrent calls, starts with an order the unchanged
\* registry gives and keeps it
C10_RegistryUntouched ==
  [][ /\ providers' = providers
      /\ \A s \in Slots :
           /\ (~Called(s) /\ Called(s)') => order'[s] \in AttemptOrders(variant, providers)
           /\ Called(s) => order'[s] = order[s]
    ]_vars

\* C10 witness: one call threw after a provider timed out, and another call,
\* still in flight, attempts that provider at the same position
C10_Witness ==
  \E s, t \in Slots :
    /\ s # t
    /\ outcome[s].kind = "thrown"
    /\ pc[t] = "await"
    /\ \E j \in 1..Len(attempts[s]) :
         /\ attempts[s][j].out = "timeout"
         /\ Len(attempts[t]) = j
         /\ attempts[t][j].prov = attempts[s][j].prov

\* C11: one call of a provider handler issues exactly one outbound HTTP request:
\* every attempt of every call has made one fetch, never none and never two
C11_OneRequestPerAttempt ==
  \A s \in Slots : \A j \in 1..Len(attempts[s]) : attempts[s][j].fetches = 1

\* the messages the chat route is to refuse: no array, no element, or, in the
\* file that validates the format, an element without a role or without
\* content; a null element has neither
InvalidMessages(v) ==
  {"missing", "notArray", "empty"}
    \cup (IF v = "tsSmart" THEN {"noRole", "noContent", "nullMessage"} ELSE {})

\* C12: a chat request whose messages are missing, no array or empty, or, in
\* the file that validates the message format, hold a message without a role
\* or without content, is answered with 400 and no handler is called for it
C12_InvalidMessagesRefused ==
  \A s \in Slots :
    (Answered(s, "chat") /\ req[s].arg \in InvalidMessages(variant)) =>
      /\ resp[s].status = 400
      /\ attempts[s] = <<>>
      /\ outcome[s] = NoOutcome

\* C13: when tryProviders threw, the chat route has answered 500 with a JSON
\* error body whose message is the thrown error, streamed or not, and the one
\* call made on the response is that res.json: no header, no chunk before it
C13_AllFailedAnswers500 ==
  \A s \in Slots :
    (req[s].endpoint = "chat" /\ outcome[s].kind = "thrown") =>
      /\ pc[s] = "done"
      /\ resp[s].status = 500
      /\ resp[s].shape = "error"
      /\ resp[s].message = outcome[s].err
      /\ resp[s].writes = <<JsonCall>>

\* C13 witness: a streamed chat request went through three providers, all of
\* which failed, and was answered
C13_Witness ==
  \E s \in Slots :
    /\ req[s].endpoint = "chat" /\ req[s].stream
    /\ outcome[s].kind = "thrown"
    /\ Len(attempts[s]) = 3
    /\ resp[s].status = 500

\* the calls that end a response
Terminal(w) == { k \in 1..Len(w) : w[k].op \in {"json", "end"} }

\* the operations of a sequence of calls on res
Ops(w) == [k \in 1..Len(w) |-> w[k].op]

C15_FakeStreaming ==
  \A s \in Slots :
    /\ pc[s] = "await" => resp[s].writes = <<>>
    /\ (req[s].endpoint = "chat" /\ req[s].stream /\ outcome[s].kind = "returned") =>
         LET w == resp[s].writes
             text == attempts[s][Len(attempts[s])].val
         IN  /\ Ops(w) = <<"setHeader", "write", "write", "write", "end">>
             /\ w[2].chunk.delta = text /\ w[2].chunk.finish = "null"
             /\ ~w[2].chunk.done
             /\ w[3].chunk.delta = Undefined /\ w[3].chunk.finish = "stop"
             /\ ~w[3].chunk.done
             /\ w[4].chunk.done

\* C15 witness: a streamed chat request was answered with the text of the
\* second provider tried
C15_Witness ==
  \E s \in Slots :
    /\ req[s].endpoint = "chat" /\ req[s].stream
    /\ outcome[s].kind = "returned"
    /\ Len(attempts[s]) = 2
    /\ attempts[s][2].val = Str(Hi)
    /\ Len(resp[s].writes) = 5

\* C16: in the file that shuffles, the array one call walks holds every enabled
\* provider exactly once and no disabled one, the attempts follow it, and
\* before a request arrives every enabled provider can become the first one
\* tried for it
C16_ShuffledOrder ==
  variant = "tsShuffle" =>
    \A s \in Slots :
      /\ Called(s) =>
           /\ Len(order[s]) = Cardinality(EnabledSet)
           /\ { order[s][k] : k \in 1..Len(order[s]) } = EnabledSet
           /\ \A j \in 1..Len(attempts[s]) : attempts[s][j].prov = order[s][j]
      /\ pc[s] = "idle" =>
           \A i \in EnabledSet :
             ENABLED (PostChat(s) /\ attempts'[s] # <<>> /\ attempts'[s][1].prov = i)

\* C16 witness: with three providers enabled, a call tries the third of the
\* registry first and the first of the registry last
C16_Witness ==
  /\ variant = "tsShuffle"
  /\ Cardinality(EnabledSet) = 3
  /\ \E s \in Slots :
       /\ Len(attempts[s]) = 3
       /\ attempts[s][1].prov = 3
       /\ attempts[s][3].prov = 1

\* C17: a request to /v1/completions without a prompt is answered 400 and no
\* handler is called for it.  With a prompt, tryProviders is called as for a
\* chat request, with one well-formed message: the walk is an order the
\* registry gives, every handler called gets to its fetch, and the route
\* answers 200 with the text of the winning attempt as choices[0].text, or
\* 500 with the thrown error when every provider failed
C17_Completions ==
  \A s \in Slots :
    req[s].endpoint = "completions" =>
      /\ req[s].arg # "ok" =>
           /\ resp[s].status = 400
           /\ attempts[s] = <<>> /\ outcome[s] = NoOutcome
      /\ req[s].arg = "ok" =>
           /\ Called(s)
           /\ order[s] \in AttemptOrders(variant, providers)
           /\ \A j \in 1..Len(attempts[s]) :
                attempts[s][j].prov = order[s][j] /\ attempts[s][j].fetches >= 1
           /\ pc[s] = "done" => outcome[s].kind \in {"returned", "thrown"}
           /\ outcome[s].kind = "returned" =>
                /\ resp[s].status = 200
                /\ resp[s].shape = "text_completion"
                /\ resp[s].content = attempts[s][Len(attempts[s])].val
           /\ outcome[s].kind = "thrown" =>
                /\ resp[s].status = 500
                /\ resp[s].message = outcome[s].err
                /\ Len(attempts[s]) = Cardinality(EnabledSet)

\* C17 witness: a completions request was answered with the text of the second
\* provider after the first one failed
C17_Witness ==
  \E s \in Slots :
    /\ req[s].endpoint = "completions"
    /\ outcome[s].kind = "returned"
    /\ Len(attempts[s]) = 2
    /\ resp[s].status = 200

\* the model ids the enabled providers list
EnabledModels == { m \in ModelIds(providers) : \E i \in EnabledSet : ListedBy(i, m) }

\* C18: in every file the list of GET /v1/models holds exactly the model ids
\* the enabled providers list, and each of them once
C18_ModelsListedOnce ==
  \A s \in Slots :
    Answered(s, "models") =>
      LET d == resp[s].data
      IN  /\ { d[k].id : k \in 1..Len(d) } = EnabledModels
          /\ \A j, k \in 1..Len(d) : j # k => d[j].id # d[k].id

\* the enabled providers that list a model
Listers(model) == { i \in EnabledSet : ListedBy(i, model) }

\* C19: in the files that register GET /v1/models/:model, the answer is 404
\* exactly when no enabled provider lists the model; otherwise it is 200 with
\* the requested id and, as owned_by, the lower-cased name of the first
\* enabled provider of the registry that lists it
C19_ModelLookup ==
  HasModelRoute(variant) =>
    \A s \in Slots :
      Answered(s, "model") =>
        /\ resp[s].status = 404 <=> Listers(req[s].arg) = {}
        /\ Listers(req[s].arg) # {} =>
             LET first == CHOOSE i \in Listers(req[s].arg) :
                            \A j \in Listers(req[s].arg) : i <= j
             IN  /\ resp[s].status = 200
                 /\ resp[s].data = << [id |-> req[s].arg,
                                        owned_by |-> ToLowerCase(providers[first].name)] >>

\* C19 witness: a model that a disabled provider lists first and two enabled
\* providers list after it was looked up and found
C19_Witness ==
  /\ HasModelRoute(variant)
  /\ \E s \in Slots :
       /\ Answered(s, "model") /\ resp[s].status = 200
       /\ Cardinality(Listers(req[s].arg)) = 2
       /\ \E i \in DisabledSet :
            ListedBy(i, req[s].arg) /\ \A j \in Listers(req[s].arg) : i < j

\* the providers whose handler, called for the request of the slot, has an
\* upstream call that has not settled
Running(s) ==
  abandoned[s] \cup (IF pc[s] = "await" THEN {order[s][pos[s]]} ELSE {})

\* C20: within one request at most one handler is running at any time, also
\* after an attempt was ended by its timer
C20_OneHandlerAtATime ==
  \A s \in Slots : Cardinality(Running(s)) <= 1

\* the providers whose attempt was ended by its timer
TimedOut(s) ==
  { attempts[s][j].prov : j \in { k \in 1..Len(attempts[s]) :
                                    attempts[s][k].out = "timeout" } }

\* C21: what a handler produces after its attempt was ended by the timer is
\* never used.  A call that returned, returned the value of its last attempt,
\* that attempt was ended by its handler and not by a timer, its provider is
\* none of those that timed out, and the response carries that value; and a
\* step in which an abandoned handler settles changes neither the log, the
\* errors array, the outcome of the call nor the response
C21_LateResultUnused ==
  /\ [](\A s \in Slots :
          outcome[s].kind = "returned" =>
            LET last == attempts[s][Len(attempts[s])]
            IN  /\ last.out = "success"
                /\ last.prov \notin TimedOut(s)
                /\ outcome[s].val = last.val
                /\ resp[s].content = last.val)
  /\ [][\A s \in Slots :
          abandoned'[s] # abandoned[s] /\ abandoned'[s] \subseteq abandoned[s] =>
            /\ attempts'[s] = attempts[s] /\ errors'[s] = errors[s]
            /\ outcome'[s] = outcome[s] /\ resp'[s] = resp[s]
            /\ pc'[s] = pc[s]]_vars

\* C21 witness: the first two providers timed out, the third answered, the
\* request was answered with its text, and both abandoned handlers have
\* settled since
C21_Witness ==
  \E s \in Slots :
    /\ Len(attempts[s]) = 3
    /\ attempts[s][1].out = "timeout" /\ attempts[s][2].out = "timeout"
    /\ outcome[s] = Returned(Str(Hi))
    /\ resp[s].status = 200
    /\ abandoned[s] = {}

\* the attempts of the slot that their handler ended
HandlerEnded(s) ==
  { j \in 1..Len(attempts[s]) : attempts[s][j].out \in {"success", "empty", "error"} }

\* C22 as stated: the timer of an attempt is cancelled when the handler of the
\* attempt settles, so no timer of a call is pending behind an attempt that is
\* over, and none when the call has returned or thrown
C22_NoTimerLeftPending ==
  \A s \in Slots : stale[s] = 0

\* C22 as amended: only fetchWithTimeout cancels its timer.  Where the handler
\* is raced against setTimeout, the timer of an attempt that its handler ended
\* stays pending, also after tryProviders returned or threw: a turn of the
\* event loop leaves one timer more for each attempt whose handler ended in
\* it, there are never more timers pending than such attempts, and a timer
\* goes only by firing, one at a time, which changes nothing of the request
C22_TimersOutliveRace ==
  /\ [](\A s \in Slots :
          /\ stale[s] <= Cardinality(HandlerEnded(s))
          /\ ~Races(variant) => stale[s] = 0)
  /\ [][\A s \in Slots :
          /\ stale'[s] < stale[s] =>
               /\ stale'[s] = stale[s] - 1
               /\ attempts'[s] = attempts[s] /\ errors'[s] = errors[s]
               /\ outcome'[s] = outcome[s] /\ resp'[s] = resp[s]
               /\ pc'[s] = pc[s]
          /\ (Races(variant) /\ stale'[s] >= stale[s]) =>
               stale'[s] - stale[s] =
                 Cardinality(HandlerEnded(s)') - Cardinality(HandlerEnded(s))]_vars

\* C22 witness: a call returned at its third attempt after two handlers
\* failed; the timers of all three races are pending
C22_Witness ==
  \E s \in Slots :
    /\ outcome[s].kind = "returned"
    /\ Len(attempts[s]) = 3
    /\ stale[s] = 3

\* the text a handler puts in the place of a completion the body does not
\* carry; no upstream of the model sends it as a completion
Placeholder(val) ==
  /\ val.t = "str"
  /\ \/ val.s = NoResponse
     \/ \E i \in 1..Len(providers) : val.s = NoResponseFrom(providers[i].name)

\* C23: an attempt whose upstream answered OK with a body that carries no
\* completion text counts as empty: while a later provider is left to try,
\* the placeholder the handler made of it is never the value the attempt
\* succeeded with, so it is never returned as content
C23_NoContentFallsThrough ==
  \A s \in Slots : \A j \in 1..Len(attempts[s]) :
    (Placeholder(attempts[s][j].val) /\ j < Len(order[s])) =>
      /\ attempts[s][j].out = "empty"
      /\ outcome[s].kind = "returned" => ~Placeholder(outcome[s].val)

\* a value that is a string of white space and nothing else
OnlySpace(val) == val.t = "str" /\ val.s # <<>> /\ Trim(val.s) = <<>>

\* C24: in every file that sorts by priority, an attempt that yielded white
\* space only counts as empty: the call did not return at it, and what a call
\* returns is never white space only
C24_WhitespaceIsEmpty ==
  variant \in PriorityVariants =>
    \A s \in Slots :
      /\ \A j \in 1..Len(attempts[s]) :
           OnlySpace(attempts[s][j].val) => attempts[s][j].out = "empty"
      /\ outcome[s].kind = "returned" => ~OnlySpace(outcome[s].val)

\* the two calls walk the same array: the files that sort always do, the file
\* that shuffles when Math.random gave both the same arrangement
SameDraw(s, t) == variant = "tsShuffle" => order[s] = order[t]

\* the two logs agree on how the attempts 1..n ended
SameOutcomes(s, t, n) ==
  \A k \in 1..n :
    /\ k <= Len(attempts[s]) /\ k <= Len(attempts[t])
    /\ attempts[s][k].out = attempts[t][k].out

\* C25: the requested model does not route.  Whatever the model, a call walks
\* an order that the registry alone gives, its attempts follow that order, and
\* every handler is handed the model of the request as it came; and of two
\* requests that differ in the model only, the one attempts at each position
\* the provider the other attempts there as long as the earlier attempts ended
\* alike, and neither goes on where the other stopped
C25_ModelDoesNotRoute ==
  /\ \A s \in Slots :
       Called(s) =>
         /\ order[s] \in AttemptOrders(variant, providers)
         /\ \A j \in 1..Len(attempts[s]) :
              /\ attempts[s][j].prov = order[s][j]
              /\ attempts[s][j].model = req[s].model
  /\ \A s, t \in Slots :
       (/\ Called(s) /\ Called(t)
        /\ req[s].model # req[t].model
        /\ [req[s] EXCEPT !.model = req[t].model] = req[t]
        /\ SameDraw(s, t)) =>
         /\ \A j \in 1..Min(Len(attempts[s]), Len(attempts[t])) :
              SameOutcomes(s, t, j - 1) => attempts[s][j].prov = attempts[t][j].prov
         /\ SameOutcomes(s, t, Len(attempts[s])) => Len(attempts[t]) = Len(attempts[s])

\* C25 witness: two requests, one for a model that the second provider lists
\* and the first does not, one for a model nobody lists, both saw the first
\* provider time out and were answered by the second
C25_Witness ==
  \E s, t \in Slots :
    /\ req[s].model = Llama2 /\ req[t].model = UnknownModel
    /\ ListedBy(2, Llama2) /\ ~ListedBy(1, Llama2)
    /\ outcome[s].kind = "returned" /\ outcome[t].kind = "returned"
    /\ Len(attempts[s]) = 2 /\ Len(attempts[t]) = 2
    /\ attempts[s][1].out = "timeout" /\ attempts[t][1].out = "timeout"
    /\ attempts[s][2].model = Llama2 /\ attempts[t][2].model = UnknownModel

\* C26: in the files that have both model endpoints, a model id that GET
\* /v1/models returned is found by GET /v1/models/:model, and the owned_by of
\* the list entry is the owned_by of the lookup, also for a model that several
\* enabled providers list
C26_ModelEndpointsAgree ==
  HasModelRoute(variant) =>
    \A s, t \in Slots :
      (Answered(s, "models") /\ Answered(t, "model")) =>
        \A k \in 1..Len(resp[s].data) :
          resp[s].data[k].id = req[t].arg =>
            /\ resp[t].status = 200
            /\ resp[t].data[1].owned_by = resp[s].data[k].owned_by

====
